---- MODULE Spec2Model ----
(***************************************************************************)
(* bloaty-metafile: the attribution pipeline.                              *)
(*                                                                         *)
(*   tool.rs      symbol classifier (get_crate_name) and path building     *)
(*   packages.rs  dependency resolver (Packages::new, get_path)            *)
(*   tree.rs      attribution tree (Tree::new, add_path, to_metafile)      *)
(*                                                                         *)
(* A Rust string is a sequence of one-character strings, so that every     *)
(* scan, split and join of the source is computed character by character.  *)
(* A u64 size is a natural number; the sizes used stay far below 2^64.     *)
(***************************************************************************)
EXTENDS Integers, Sequences, FiniteSets, TLC

VARIABLES
    pc,            \* position of the run
    tree,          \* Tree.root and everything below it: path -> Node
    log,           \* the add_path calls made so far, in order
    meta,          \* the Metafile returned by to_metafile
    lock,          \* lock.packages, the dependency graph handed to Packages::new
    records,       \* the SectionRecords handed to Packages::new
    crates,        \* Packages::new: the owner names found in the records
    parents,       \* Packages::new: name -> the names that depend on it
    dependencies,  \* Packages::new: name -> the names it depends on
    roots,         \* Packages::new: the candidate roots that are owners
    packages,      \* the Packages value: [parent: name -> name]
    gp,            \* the running get_path call: id, path, cur, its position
    args,          \* the arguments of Tree::new: csv rows, lock file, no_sections
    idx,           \* Tree::new: the number of records its loop has processed
    result         \* what Tree::new returned, None while it has not

treeVars == <<tree, log, meta>>
pkgVars == <<lock, records, crates, parents, dependencies, roots, packages, gp>>
newVars == <<args, idx, result>>
vars == <<pc, tree, log, meta, lock, records, crates, parents, dependencies,
          roots, packages, gp, args, idx, result>>

(***************************************************************************)
(* Strings                                                                 *)
(***************************************************************************)

\* str::matches(pat).count() for a one-character pattern
CountChar(s, c) == Cardinality({i \in 1..Len(s) : s[i] = c})

\* tool.rs constants
ROOT_NAME == <<"R", "O", "O", "T">>
UNKNOWN_NAME == <<"U", "N", "K", "N", "O", "W", "N">>
SECTIONS_NAME == <<"S", "E", "C", "T", "I", "O", "N", "S">>

\* Option<T>
None == [some |-> FALSE]
Some(x) == [some |-> TRUE, val |-> x]

\* str::starts_with, str::ends_with, str::contains
StartsWith(s, pre) == Len(pre) <= Len(s) /\ SubSeq(s, 1, Len(pre)) = pre
EndsWith(s, suf) ==
    Len(suf) <= Len(s) /\ SubSeq(s, Len(s) - Len(suf) + 1, Len(s)) = suf
Contains(s, pat) ==
    \E i \in 1..(Len(s) - Len(pat) + 1) : SubSeq(s, i, i + Len(pat) - 1) = pat

\* &s[n..]
DropFirst(s, n) == SubSeq(s, n + 1, Len(s))

\* str::trim; the only whitespace of the symbols modelled is the space
RECURSIVE TrimStart(_)
TrimStart(s) == IF s # <<>> /\ Head(s) = " " THEN TrimStart(Tail(s)) ELSE s
RECURSIVE TrimEnd(_)
TrimEnd(s) ==
    IF s # <<>> /\ s[Len(s)] = " " THEN TrimEnd(SubSeq(s, 1, Len(s) - 1)) ELSE s
Trim(s) == TrimEnd(TrimStart(s))

\* str::replace("-", "_")
ReplaceDash(s) == [i \in 1..Len(s) |-> IF s[i] = "-" THEN "_" ELSE s[i]]

\* str::split("::"), with cur the piece being read
RECURSIVE SplitColons(_, _)
SplitColons(s, cur) ==
    IF s = <<>> THEN <<cur>>
    ELSE IF StartsWith(s, <<":", ":">>)
         THEN <<cur>> \o SplitColons(DropFirst(s, 2), <<>>)
         ELSE SplitColons(Tail(s), Append(cur, Head(s)))

\* Iterator::filter on a sequence of strings: drop "" and "<>"
RECURSIVE FilterParts(_)
FilterParts(parts) ==
    IF parts = <<>> THEN <<>>
    ELSE IF Head(parts) # <<>> /\ Head(parts) # <<"<", ">">>
         THEN <<Head(parts)>> \o FilterParts(Tail(parts))
         ELSE FilterParts(Tail(parts))

(***************************************************************************)
(* tool.rs: the symbol classifier                                          *)
(***************************************************************************)

PRIMITIVE_TYPES ==
    {<<"b", "o", "o", "l">>, <<"c", "h", "a", "r">>, <<"f", "3", "2">>,
     <<"f", "6", "4">>, <<"i", "8">>, <<"i", "1", "6">>, <<"i", "3", "2">>,
     <<"i", "6", "4">>, <<"i", "1", "2", "8">>, <<"i", "s", "i", "z", "e">>,
     <<"u", "8">>, <<"u", "1", "6">>, <<"u", "3", "2">>, <<"u", "6", "4">>,
     <<"u", "1", "2", "8">>, <<"u", "s", "i", "z", "e">>, <<"s", "t", "r">>}

is_primitive_type(s) == s \in PRIMITIVE_TYPES

\* "std::primitive::"
StdPrimitive ==
    <<"s", "t", "d", ":", ":", "p", "r", "i", "m", "i", "t", "i", "v", "e", ":", ":">>

RECURSIVE normalize_type(_)
normalize_type(raw) ==
    LET s == Trim(raw)
    IN IF s = <<"(", ")">> THEN StdPrimitive \o <<"u", "n", "i", "t">>
       ELSE IF StartsWith(s, <<"(">>) /\ EndsWith(s, <<")">>)
       THEN StdPrimitive \o <<"t", "u", "p", "l", "e">>
       ELSE IF StartsWith(s, <<"[">>) /\ EndsWith(s, <<"]">>)
       THEN StdPrimitive \o <<"s", "l", "i", "c", "e">>
       ELSE IF StartsWith(s, <<"&">>)
       THEN LET inner == Trim(DropFirst(s, 1))
            IN IF is_primitive_type(inner) THEN StdPrimitive \o inner
               ELSE normalize_type(inner)
       ELSE IF StartsWith(s, <<"*", "m", "u", "t", " ">>)
       THEN normalize_type(Trim(DropFirst(s, 5)))
       ELSE IF StartsWith(s, <<"*", "c", "o", "n", "s", "t", " ">>)
       THEN normalize_type(Trim(DropFirst(s, 7)))
       ELSE IF is_primitive_type(s) THEN StdPrimitive \o s
       ELSE s

\* symbol_is_crate: no "..", no space, no leading '['
\* symbol_is_crate without its test for a space
symbol_is_crate_no_space_rule(s) ==
    ~Contains(s, <<".", ".">>) /\ ~StartsWith(s, <<"[">>)

symbol_is_crate(s) ==
    ~Contains(s, <<".", ".">>) /\ ~Contains(s, <<" ">>) /\ ~StartsWith(s, <<"[">>)

\* clean_symbol_part: strip trailing "()" and "<>"
RECURSIVE clean_symbol_part(_)
clean_symbol_part(s) ==
    IF EndsWith(s, <<"(", ")">>) \/ EndsWith(s, <<"<", ">">>)
    THEN LET r1 == IF EndsWith(s, <<"(", ")">>) THEN SubSeq(s, 1, Len(s) - 2) ELSE s
             r2 == IF EndsWith(r1, <<"<", ">">>) THEN SubSeq(r1, 1, Len(r1) - 2) ELSE r1
         IN clean_symbol_part(r2)
    ELSE s

\* the character loop of split_symbol_parts, from position i on
RECURSIVE ssp_loop(_, _, _, _, _, _)
ssp_loop(s, i, parts, current, brace_depth, angle_depth) ==
    IF i > Len(s) THEN IF current # <<>> THEN Append(parts, current) ELSE parts
    ELSE LET c == s[i]
         IN CASE c = "{" ->
                   ssp_loop(s, i + 1, parts, Append(current, c), brace_depth + 1, angle_depth)
              [] c = "}" ->
                   ssp_loop(s, i + 1, parts, Append(current, c), brace_depth - 1, angle_depth)
              [] c = "<" ->
                   ssp_loop(s, i + 1, parts, Append(current, c), brace_depth, angle_depth + 1)
              [] c = ">" ->
                   ssp_loop(s, i + 1, parts, Append(current, c), brace_depth, angle_depth - 1)
              [] c = ":" /\ brace_depth = 0 /\ angle_depth = 0 ->
                   IF i + 1 <= Len(s) /\ s[i + 1] = ":"
                   THEN IF current # <<>>
                        THEN ssp_loop(s, i + 2, Append(parts, current), <<>>,
                                      brace_depth, angle_depth)
                        ELSE ssp_loop(s, i + 2, parts, current, brace_depth, angle_depth)
                   ELSE ssp_loop(s, i + 1, parts, Append(current, c),
                                 brace_depth, angle_depth)
              [] OTHER ->
                   ssp_loop(s, i + 1, parts, Append(current, c), brace_depth, angle_depth)

split_symbol_parts(s) ==
    LET parts == ssp_loop(s, 1, <<>>, <<>>, 0, 0)
    IN FilterParts([i \in 1..Len(parts) |-> clean_symbol_part(parts[i])])

\* find_type_part: the text before the first " as " outside angle brackets
RECURSIVE ftp_loop(_, _, _)
ftp_loop(inner, i, depth) ==
    IF i > Len(inner) THEN inner
    ELSE CASE inner[i] = "<" -> ftp_loop(inner, i + 1, depth + 1)
           [] inner[i] = ">" -> ftp_loop(inner, i + 1, depth - 1)
           [] inner[i] = " " /\ depth = 0 /\ i + 3 <= Len(inner)
                 /\ SubSeq(inner, i, i + 3) = <<" ", "a", "s", " ">> ->
                SubSeq(inner, 1, i - 1)
           [] OTHER -> ftp_loop(inner, i + 1, depth)

\* the type part cut at the first " as ", inside nested brackets or not
find_type_part_any_depth(inner) ==
    CHOOSE part \in {SubSeq(inner, 1, n) : n \in 0..Len(inner)} :
       /\ (part = inner \/ SubSeq(inner, Len(part) + 1, Len(part) + 4) = <<" ", "a", "s", " ">>)
       /\ ~Contains(part, <<" ", "a", "s", " ">>)

find_type_part(inner) == ftp_loop(inner, 1, 0)

\* the scan for the '>' matching the leading '<': its position, or 0
RECURSIVE close_pos_loop(_, _, _)
close_pos_loop(s, i, depth) ==
    IF i > Len(s) THEN 0
    ELSE CASE s[i] = "<" -> close_pos_loop(s, i + 1, depth + 1)
           [] s[i] = ">" -> IF depth - 1 = 0 THEN i
                            ELSE close_pos_loop(s, i + 1, depth - 1)
           [] OTHER -> close_pos_loop(s, i + 1, depth)

\* extract_inner_type_and_outer_method: Option<(inner type, outer method)>
RECURSIVE extract_inner_type_and_outer_method(_)
extract_inner_type_and_outer_method(raw) ==
    LET s == Trim(raw)
        close_pos == close_pos_loop(s, 1, 0)
        rest == SubSeq(s, close_pos, Len(s))
        outer_method == IF StartsWith(rest, <<">", ":", ":">>)
                        THEN DropFirst(rest, 3) ELSE <<>>
        inner == SubSeq(s, 2, close_pos - 1)
        type_part == find_type_part(inner)
    IN IF ~StartsWith(s, <<"<">>) THEN None
       ELSE IF close_pos = 0 THEN None
       ELSE IF StartsWith(type_part, <<"<">>)
       THEN LET r == extract_inner_type_and_outer_method(type_part)
            IN IF r.some THEN Some(<<r.val[1], outer_method>>) ELSE None
       ELSE Some(<<type_part, outer_method>>)

\* parse_angle_bracket_symbol
parse_angle_bracket_symbol(symbols) ==
    LET r == extract_inner_type_and_outer_method(symbols)
        type_parts == FilterParts(split_symbol_parts(normalize_type(r.val[1])))
        method_parts == IF r.val[2] # <<>>
                        THEN FilterParts(split_symbol_parts(r.val[2])) ELSE <<>>
        parts == type_parts \o method_parts
    IN IF ~r.some THEN None
       ELSE IF Len(parts) > 1 /\ symbol_is_crate(parts[1])
       THEN Some([crate_name |-> parts[1], parts |-> parts])
       ELSE None

\* get_crate_name: Option<(crate name, symbol parts)>
get_crate_name(symbols) ==
    IF StartsWith(symbols, <<"<">>) THEN parse_angle_bracket_symbol(symbols)
    ELSE LET parts == split_symbol_parts(symbols)
         IN IF parts = <<>> THEN None
            ELSE IF ~symbol_is_crate(parts[1]) THEN None
            ELSE IF Len(parts) > 1
            THEN Some([crate_name |-> parts[1], parts |-> parts])
            ELSE None

(***************************************************************************)
(* packages.rs: find_shortest_parents                                      *)
(***************************************************************************)

\* usize::MAX, the marker compute_shortest_path returns on a cycle; it is
\* only ever tested for equality
USIZE_MAX == 2147483647

\* Ord on (usize, usize)
PairLess(a, b) == a[1] < b[1] \/ (a[1] = b[1] /\ a[2] < b[2])

\* `current_path = (path_len + 1, name_len + start.len())`
PathThrough(res, start) == <<res[1] + 1, res[2] + Len(start)>>

\* compute_shortest_path.  The cache is shared and a HashSet is walked in an
\* order the program does not fix: the result is the set of
\* [res, cache] pairs some order produces.
RECURSIVE compute_shortest_path(_, _, _, _)
RECURSIVE csp_parents(_, _, _, _, _, _)
compute_shortest_path(start, pmap, cache, visiting) ==
    IF start \in visiting THEN {[res |-> <<USIZE_MAX, USIZE_MAX>>, cache |-> cache]}
    ELSE IF start \in DOMAIN cache THEN {[res |-> cache[start], cache |-> cache]}
    ELSE LET nodes == IF start \in DOMAIN pmap THEN pmap[start] ELSE {}
             outs == csp_parents(start, nodes, pmap, cache, visiting \cup {start}, None)
         IN {LET min_path == IF o.min.some THEN o.min.val ELSE <<0, 0>>
             IN [res |-> min_path, cache |-> (start :> min_path) @@ o.cache]
             : o \in outs}

\* `for parent in nodes { .. }` of compute_shortest_path, in every order
csp_parents(start, todo, pmap, cache, visiting, min_path) ==
    IF todo = {} THEN {[min |-> min_path, cache |-> cache]}
    ELSE UNION {UNION {
            LET current_path == PathThrough(r.res, start)
                next_min ==
                   IF r.res[1] = USIZE_MAX THEN min_path
                   ELSE IF ~min_path.some \/ PairLess(current_path, min_path.val)
                        THEN Some(current_path) ELSE min_path
            IN csp_parents(start, todo \ {p}, pmap, r.cache, visiting, next_min)
            : r \in compute_shortest_path(p, pmap, cache, visiting)}
         : p \in todo}

\* Iterator::min_by with the comparator of find_shortest_parents: acc is the
\* least element so far (the first of equal elements is kept)
RECURSIVE min_by_fold(_, _, _, _)
min_by_fold(acc, todo, pmap, cache) ==
    IF todo = {} THEN {[sel |-> acc, cache |-> cache]}
    ELSE UNION {UNION {UNION {
            min_by_fold(IF PairLess(rb.res, ra.res) THEN y ELSE acc,
                        todo \ {y}, pmap, rb.cache)
            : rb \in compute_shortest_path(y, pmap, ra.cache, {})}
            : ra \in compute_shortest_path(acc, pmap, cache, {})}
         : y \in todo}

\* `.filter(|p| dependencies[*p].contains(name))`
ParentCandidates(name, pmap, deps) == {p \in pmap[name] : name \in deps[p]}

\* the shortest parent of one name: [sel, cache] for every order
shortest_parent(name, pmap, deps, cache) ==
    LET cands == ParentCandidates(name, pmap, deps)
    IN IF cands = {} THEN {[sel |-> name, cache |-> cache]}
       ELSE UNION {min_by_fold(first, cands \ {first}, pmap, cache) : first \in cands}

\* `parents.keys().map(..).collect()`, the keys in every order
RECURSIVE fsp_keys(_, _, _, _, _)
fsp_keys(todo, pmap, deps, cache, parent_map) ==
    IF todo = {} THEN {parent_map}
    ELSE UNION {UNION {
            fsp_keys(todo \ {name}, pmap, deps, r.cache, (name :> r.sel) @@ parent_map)
            : r \in shortest_parent(name, pmap, deps, cache)}
         : name \in todo}

\* find_shortest_parents: every parent_map it can return
find_shortest_parents(pmap, deps) == fsp_keys(DOMAIN pmap, pmap, deps, <<>>, <<>>)

(***************************************************************************)
(* packages.rs: Packages::new and Packages::get_path                       *)
(***************************************************************************)

\* `records.iter().filter_map(|i| get_crate_name(&i.symbols)).map(name)`
CratesOf(recs) ==
    {get_crate_name(recs[i].symbols).val.crate_name :
        i \in {j \in 1..Len(recs) : get_crate_name(recs[j].symbols).some}}

\* `if dep == &name { continue; }`
SkipsDependence(dep, name) == dep = name

\* the fold over lock.packages building (parents, dependencies)
RECURSIVE fold_packages(_, _, _)
fold_packages(pkgs, pmap, deps) ==
    IF pkgs = <<>> THEN [parents |-> pmap, dependencies |-> deps]
    ELSE LET pkg == Head(pkgs)
             name == ReplaceDash(pkg.name)
             p0 == IF name \in DOMAIN pmap THEN pmap ELSE (name :> {}) @@ pmap
             pkg_deps == {ReplaceDash(d) : d \in pkg.dependencies}
             added == {d \in pkg_deps : ~SkipsDependence(d, name)}
             p1 == [k \in DOMAIN p0 \cup added |->
                      (IF k \in DOMAIN p0 THEN p0[k] ELSE {})
                         \cup (IF k \in added THEN {name} ELSE {})]
         IN fold_packages(Tail(pkgs), p1, (name :> pkg_deps) @@ deps)

\* the keys the `while let` of Packages::new can pick: empty parent set
CandidateRoots(pmap) == {k \in DOMAIN pmap : pmap[k] = {}}

\* root_step without `parents.remove(&root)`: the picked key stays
root_step_keep_key(pmap, rts, crs, root) ==
    LET is_real_root == root \in crs
    IN [parents |-> [k \in DOMAIN pmap |->
                       IF root \in pmap[k] /\ ~is_real_root
                       THEN pmap[k] \ {root} ELSE pmap[k]],
        roots |-> IF is_real_root THEN rts \cup {root} ELSE rts]

\* one iteration of the `while let` on the picked root
root_step(pmap, rts, crs, root) ==
    LET is_real_root == root \in crs
    IN [parents |-> [k \in DOMAIN pmap \ {root} |->
                       IF root \in pmap[k] /\ ~is_real_root
                       THEN pmap[k] \ {root} ELSE pmap[k]],
        roots |-> IF is_real_root THEN rts \cup {root} ELSE rts]

\* `for i in roots { parents.insert(i, HashSet::new()); }`
reinsert_roots(pmap, rts) ==
    [k \in DOMAIN pmap \cup rts |-> IF k \in rts THEN {} ELSE pmap[k]]

\* a Packages value that holds an edge: a has parent r
PackagesWithEdge == [parent |-> (<<"a">> :> <<"r">>)]

\* Packages::default()
DefaultPackages == [parent |-> <<>>]

\* one pass of get_path's `while let`: push the parent and move to it, or stop
get_path_iter_no_self_check(parent, st) ==
    IF st.cur \in DOMAIN parent
    THEN [st EXCEPT !.path = Append(@, parent[st.cur]), !.cur = parent[st.cur]]
    ELSE [st EXCEPT !.at = "done"]

get_path_iter(parent, st) ==
    IF st.cur \in DOMAIN parent
    THEN IF parent[st.cur] = st.cur THEN [st EXCEPT !.at = "done"]
         ELSE [st EXCEPT !.path = Append(@, parent[st.cur]), !.cur = parent[st.cur]]
    ELSE [st EXCEPT !.at = "done"]

\* the state of get_path(id) before its loop
get_path_start(id) == [id |-> id, path |-> <<id>>, cur |-> id, at |-> "loop"]

\* get_path run for at most fuel passes: the state it is in then
RECURSIVE get_path_run(_, _, _)
get_path_run(parent, st, fuel) ==
    IF st.at = "done" \/ fuel = 0 THEN st
    ELSE get_path_run(parent, get_path_iter(parent, st), fuel - 1)

(***************************************************************************)
(* tree.rs: Node and Tree::add_path                                        *)
(***************************************************************************)

\* Node::create_node: a fresh node with the given own sizes and no totals
create_node(name, vmsize, filesize, is_leaf) ==
    [name |-> name, vmsize |-> vmsize, filesize |-> filesize,
     total_vmsize |-> 0, total_filesize |-> 0]

\* the root built at the start of Tree::new
EmptyTree == (<<>> :> [name |-> ROOT_NAME, vmsize |-> 0, filesize |-> 0,
                       total_vmsize |-> 0, total_filesize |-> 0])

\* the keys of node p's `nodes` map, as full paths
Children(t, p) ==
    {q \in DOMAIN t : Len(q) = Len(p) + 1 /\ SubSeq(q, 1, Len(p)) = p}

\* the statement under `if is_leaf` of add_path, on the terminal node
AccumulateLeafOverwrite(node, vmsize, filesize) ==
    [node EXCEPT !.vmsize = vmsize, !.filesize = filesize]

AccumulateLeaf(node, vmsize, filesize) ==
    [node EXCEPT !.vmsize = @ + vmsize, !.filesize = @ + filesize]

\* the two += on `current` at the top of add_path's loop body
AddTotalsTwice(node, vmsize, filesize) ==
    [node EXCEPT !.total_vmsize = @ + vmsize + vmsize,
                 !.total_filesize = @ + filesize + filesize]

AddTotals(node, vmsize, filesize) ==
    [node EXCEPT !.total_vmsize = @ + vmsize,
                 !.total_filesize = @ + filesize]

\* add_path's loop from iteration i (1-based) on; `current` is the node at
\* the first i-1 segments of path
RECURSIVE add_path_loop(_, _, _, _, _)
add_path_loop(t, path, i, vmsize, filesize) ==
    IF i > Len(path) THEN t
    ELSE LET current == SubSeq(path, 1, i - 1)
             part == path[i]
             is_leaf == (i = Len(path))
             child == Append(current, part)
             t1 == [t EXCEPT ![current] = AddTotals(@, vmsize, filesize)]
             t2 == IF child \in DOMAIN t1 THEN t1
                   ELSE t1 @@ (child :> create_node(part, 0, 0, is_leaf))
             t3 == IF is_leaf
                   THEN [t2 EXCEPT ![child] = AccumulateLeaf(@, vmsize, filesize)]
                   ELSE t2
         IN add_path_loop(t3, path, i + 1, vmsize, filesize)

\* Tree::add_path
add_path(t, path, vmsize, filesize) == add_path_loop(t, path, 1, vmsize, filesize)

(***************************************************************************)
(* tree.rs: Node::traverse and Tree::to_metafile                           *)
(***************************************************************************)

\* the `match &dir` at the top of traverse: parent + '/' + name, or name
JoinDir(dir, name) == IF dir.some THEN dir.val \o <<"/">> \o name ELSE name

\* `deep != 0 && current_depth >= deep`
AtDepthLimit(deep, current_depth) == deep # 0 /\ current_depth >= deep

\* HashMap::insert: the new entry replaces one with the same key
MapInsert(m, k, v) == (k :> v) @@ m

\* Node::traverse on the node at path p.  A HashMap is walked in an order the
\* program does not fix, and a later insert replaces an earlier one with the
\* same key, so the result is the set of maps some order produces from a map
\* of inputsSet.  imports is a Vec in that same unfixed order: kept as a set.
RECURSIVE traverse(_, _, _, _, _)
RECURSIVE traverse_children(_, _, _, _, _)
traverse(t, p, inputsSet, dir, deep) ==
    LET node == t[p]
        d == JoinDir(dir, node.name)
        current_depth == CountChar(d, "/")
        at_depth_limit == AtDepthLimit(deep, current_depth)
        imports == IF at_depth_limit THEN {}
                   ELSE {d \o <<"/">> \o t[c].name : c \in Children(t, p)}
        bytes == IF at_depth_limit THEN node.total_filesize ELSE node.filesize
        input == [bytes |-> bytes, imports |-> imports]
        inserted == {MapInsert(m, d, input) : m \in inputsSet}
    IN IF ~at_depth_limit /\ Children(t, p) # {}
       THEN traverse_children(t, Children(t, p), inserted, Some(d), deep)
       ELSE inserted

\* `for child in nodes.values() { child.traverse(..) }`, in every order
traverse_children(t, todo, inputsSet, dir, deep) ==
    IF todo = {} THEN inputsSet
    ELSE UNION {traverse_children(t, todo \ {c},
                                  traverse(t, c, inputsSet, dir, deep), dir, deep)
                : c \in todo}

\* the `inputs` maps Tree::to_metafile can build
EmitSet(t, deep) == traverse_children(t, Children(t, <<>>), {<<>>}, None, deep)

\* the Output entry of to_metafile
MakeOutput(t, inputs) ==
    [bytes |-> t[<<>>].total_filesize,
     inputs |-> [k \in DOMAIN inputs |-> [bytes_in_output |-> inputs[k].bytes]],
     imports |-> <<>>, exports |-> <<>>,
     entry_point |-> None, css_bundle |-> None]

\* Tree::to_metafile: every Metafile it can return
to_metafile(t, name, deep) ==
    {[inputs |-> inputs, outputs |-> (name :> MakeOutput(t, inputs))]
     : inputs \in EmitSet(t, deep)}

\* the sum of `bytes` over the entries of an emitted map
RECURSIVE SumBytesOver(_, _)
SumBytesOver(inputs, keys) ==
    IF keys = {} THEN 0
    ELSE LET k == CHOOSE x \in keys : TRUE
         IN inputs[k].bytes + SumBytesOver(inputs, keys \ {k})

SumBytes(inputs) == SumBytesOver(inputs, DOMAIN inputs)

(***************************************************************************)
(* Inputs of the tree specification                                        *)
(***************************************************************************)

MaxInserts == 3
MaxDeep == 3

NameA == <<"a">>
NameB == <<"b">>
NameAB == <<"a", "/", "b">>
BINARY == <<"B", "I", "N", "A", "R", "Y">>

\* paths handed to add_path: nested prefixes, a shared parent, and a name
\* holding the separator of emitted keys, at the top and below it
PathPool ==
    {<<NameA>>, <<NameA, NameB>>, <<NameA, NameB, NameA>>,
     <<NameB, NameA>>, <<NameAB>>, <<NameAB, NameB>>, <<NameA, NameAB>>}

\* (vmsize, filesize) of a record
SizePool == {<<10, 20>>, <<5, 5>>}

(***************************************************************************)
(* The tree specification: add_path calls, then to_metafile                *)
(***************************************************************************)

\* the resolver's variables while no resolver is being built
\* Tree::new is not running
NewIdle ==
    /\ args = <<>>
    /\ idx = 0
    /\ result = None

PkgIdle ==
    /\ lock = <<>>
    /\ records = <<>>
    /\ crates = {}
    /\ parents = <<>>
    /\ dependencies = <<>>
    /\ roots = {}
    /\ packages = DefaultPackages
    /\ gp = [at |-> "idle"]

InitTree ==
    /\ pc = "build"
    /\ tree = EmptyTree
    /\ log = <<>>
    /\ meta = None
    /\ PkgIdle
    /\ NewIdle

\* one call of add_path on a non-empty path
Insert ==
    /\ pc = "build"
    /\ Len(log) < MaxInserts
    /\ \E path \in PathPool, sz \in SizePool :
          /\ tree' = add_path(tree, path, sz[1], sz[2])
          /\ log' = Append(log, [path |-> path, vmsize |-> sz[1], filesize |-> sz[2]])
    /\ UNCHANGED <<pc, meta>>
    /\ UNCHANGED pkgVars
    /\ UNCHANGED newVars

\* one call of to_metafile on the populated tree
ToMetafile ==
    /\ pc = "build"
    /\ \E deep \in 0..MaxDeep :
          \E m \in to_metafile(tree, BINARY, deep) :
             meta' = Some([deep |-> deep, file |-> m])
    /\ pc' = "emitted"
    /\ UNCHANGED <<tree, log>>
    /\ UNCHANGED pkgVars
    /\ UNCHANGED newVars

NextTree == Insert \/ ToMetafile

SpecTree == InitTree /\ [][NextTree]_vars

(***************************************************************************)
(* The dependency graph of a lock document, for the resolver's properties  *)
(***************************************************************************)

\* the component names of the graph
GraphNodes(lk) == {ReplaceDash(lk[i].name) : i \in 1..Len(lk)}

\* <<n, d>>: component n depends on component d
GraphEdges(lk) ==
    UNION {{<<ReplaceDash(lk[i].name), ReplaceDash(d)>> : d \in lk[i].dependencies}
           : i \in 1..Len(lk)}

SelfEdges(E) == {e \in E : e[1] = e[2]}

\* the nodes reached from the nodes of S along one or more edges of E
RECURSIVE ReachMore(_, _, _)
ReachMore(E, frontier, seen) ==
    LET next == {e[2] : e \in {x \in E : x[1] \in frontier}} \ seen
    IN IF next = {} THEN seen ELSE ReachMore(E, next, seen \cup next)

Below(E, n) == ReachMore(E, {n}, {})
Above(E, n) == {m \in {e[1] : e \in E} : n \in Below(E, m)}

Acyclic(E) == \A e \in E : e[1] \notin Below(E, e[1])

\* every path of E from node n on that repeats no node, first node n
RECURSIVE PathsFrom(_, _, _)
PathsFrom(E, n, seen) ==
    {<<n>>} \cup
    UNION {{<<n>> \o P : P \in PathsFrom(E, d, seen \cup {d})}
           : d \in {e[2] : e \in {x \in E : x[1] = n}} \ seen}

\* the sum of the lengths of the names of a chain
RECURSIVE NameLen(_)
NameLen(chain) == IF chain = <<>> THEN 0 ELSE Len(Head(chain)) + NameLen(Tail(chain))

Reverse(q) == [i \in 1..Len(q) |-> q[Len(q) + 1 - i]]

\* the owners that are canonical roots: no owner depends on them, directly
\* or through other components
CanonicalRoots(E, owners, nodes) ==
    {n \in nodes \cap owners : Above(E \ SelfEdges(E), n) \cap owners = {}}

\* the graph has a self-referential edge and no other cycle
SelfEdgeOnly(lk) ==
    /\ SelfEdges(GraphEdges(lk)) # {}
    /\ Acyclic(GraphEdges(lk) \ SelfEdges(GraphEdges(lk)))

(***************************************************************************)
(* Inputs of the resolver specification                                    *)
(***************************************************************************)

MaxEdges == 4
MaxChain == 6

PkgR == <<"r">>
PkgA == <<"a">>
PkgBB == <<"b", "b">>
PkgCD == <<"c", "-", "d">>
NameCD == <<"c", "_", "d">>
NameStd == <<"s", "t", "d">>

\* the packages of the lock document, in document order
PkgOrder == <<PkgR, PkgA, PkgBB, PkgCD>>
PkgNames == {PkgOrder[i] : i \in 1..Len(PkgOrder)}

\* the "depends on" edges a lock document can hold: at most MaxEdges of them
EdgeSets ==
    {E \in SUBSET (PkgNames \X PkgNames) : Cardinality(E) <= MaxEdges}

\* lock.packages of the document with edges E
LockOf(E) ==
    [i \in 1..Len(PkgOrder) |->
        [name |-> PkgOrder[i],
         dependencies |-> {e[2] : e \in {x \in E : x[1] = PkgOrder[i]}}]]

SecText == <<".", "t">>
SymF == <<":", ":", "f">>

\* a record of section .t with the given symbol
Rec(sym) == [sections |-> SecText, symbols |-> sym, vmsize |-> 10, filesize |-> 20]

\* one symbol per package, owned by it
PkgSymbols == <<PkgR \o SymF, PkgA \o SymF, PkgBB \o SymF, NameCD \o SymF>>

\* symbols every input holds: one of the standard library, one unclassified
FixedSymbols == <<NameStd \o SymF, <<"[", "1", " ", "O", "t", "h", "e", "r", "s", "]">>>>

\* the records whose symbols are those of PkgSymbols numbered by mask, then
\* the fixed ones
RECURSIVE PickSymbols(_, _)
PickSymbols(i, mask) ==
    IF i > Len(PkgSymbols) THEN <<>>
    ELSE (IF i \in mask THEN <<Rec(PkgSymbols[i])>> ELSE <<>>) \o PickSymbols(i + 1, mask)

RecordsOf(mask) ==
    PickSymbols(1, mask) \o [i \in 1..Len(FixedSymbols) |-> Rec(FixedSymbols[i])]

\* the names get_path is asked about
QueryNames == {ReplaceDash(n) : n \in PkgNames} \cup {NameStd}

(***************************************************************************)
(* The resolver specification: Packages::new, then get_path calls          *)
(***************************************************************************)

InitPkg ==
    /\ pc = "new"
    /\ \E E \in EdgeSets : lock = LockOf(E)
    /\ \E mask \in SUBSET (1..Len(PkgSymbols)) : records = RecordsOf(mask)
    /\ crates = {}
    /\ parents = <<>>
    /\ dependencies = <<>>
    /\ roots = {}
    /\ packages = DefaultPackages
    /\ gp = [at |-> "idle"]
    /\ tree = EmptyTree
    /\ log = <<>>
    /\ meta = None
    /\ NewIdle

\* Packages::new up to its `while let`: the owners, then the fold
PackagesNewFold ==
    /\ pc = "new"
    /\ crates' = CratesOf(records)
    /\ LET f == fold_packages(lock, <<>>, <<>>)
       IN /\ parents' = f.parents
          /\ dependencies' = f.dependencies
    /\ pc' = "roots"
    /\ UNCHANGED <<lock, records, roots, packages, gp>>
    /\ UNCHANGED treeVars
    /\ UNCHANGED newVars

\* one iteration of the `while let`: any key with no parent is picked
RootStep ==
    /\ pc = "roots"
    /\ \E root \in CandidateRoots(parents) :
          LET r == root_step(parents, roots, crates, root)
          IN /\ parents' = r.parents
             /\ roots' = r.roots
    /\ UNCHANGED <<pc, lock, records, crates, dependencies, packages, gp>>
    /\ UNCHANGED treeVars
    /\ UNCHANGED newVars

\* the rest of Packages::new once no key is without parent
PackagesNewFinish ==
    /\ pc = "roots"
    /\ CandidateRoots(parents) = {}
    /\ parents' = reinsert_roots(parents, roots)
    /\ \E parent \in find_shortest_parents(parents', dependencies) :
          packages' = [parent |-> parent]
    /\ pc' = "built"
    /\ UNCHANGED <<lock, records, crates, dependencies, roots, gp>>
    /\ UNCHANGED treeVars
    /\ UNCHANGED newVars

\* a caller asks get_path(id); the locals of Packages::new are gone by then
GetPathCall ==
    /\ pc = "built"
    /\ gp.at \in {"idle", "done"}
    /\ \E id \in QueryNames : gp' = get_path_start(id)
    /\ records' = <<>>
    /\ crates' = {}
    /\ parents' = <<>>
    /\ dependencies' = <<>>
    /\ roots' = {}
    /\ UNCHANGED <<pc, lock, packages>>
    /\ UNCHANGED treeVars
    /\ UNCHANGED newVars

\* one pass of get_path's loop
GetPathIter ==
    /\ pc = "built"
    /\ gp.at = "loop"
    /\ Len(gp.path) < MaxChain
    /\ gp' = get_path_iter(packages.parent, gp)
    /\ UNCHANGED <<pc, lock, records, crates, parents, dependencies, roots, packages>>
    /\ UNCHANGED treeVars
    /\ UNCHANGED newVars

NextPkg ==
    \/ PackagesNewFold
    \/ RootStep
    \/ PackagesNewFinish
    \/ GetPathCall
    \/ GetPathIter

SpecPkg == InitPkg /\ [][NextPkg]_vars

\* Packages::new alone: the code is sequential, so once the `while let` is
\* entered a pass of it, or the code after it, is taken when it can be
NextRoots ==
    \/ PackagesNewFold
    \/ RootStep
    \/ PackagesNewFinish

SpecRoots ==
    /\ InitPkg
    /\ [][NextRoots]_vars
    /\ WF_vars(RootStep)
    /\ WF_vars(PackagesNewFinish)

(***************************************************************************)
(* Properties of the resolver                                              *)
(***************************************************************************)

\* what get_path(id) returns when it returns within MaxChain passes
Chain(id) == get_path_run(packages.parent, get_path_start(id), MaxChain).path
ChainEnds(id) == get_path_run(packages.parent, get_path_start(id), MaxChain).at = "done"

\* C5: get_path returns the chain root first and owner last, each element
\* depending on the next, and [owner] for an owner the graph does not resolve.
C5_ChainRootFirstOwnerLast ==
    (pc = "built" /\ gp.at = "done") =>
       IF gp.id \notin DOMAIN packages.parent THEN gp.path = <<gp.id>>
       ELSE /\ gp.path[Len(gp.path)] = gp.id
            /\ packages.parent[gp.path[1]] = gp.path[1]
            /\ \A i \in 1..(Len(gp.path) - 1) :
                  <<gp.path[i], gp.path[i + 1]>> \in GraphEdges(lock)

\* C6: with two disconnected subgraphs of which only one root is an owner,
\* every node below the other root gets a chain whose root element is the
\* owner root (the chain's first element, or its last).
C6_NonTargetSubgraphMergedIntoTargetRoot ==
    pc = "built" /\ crates # {} =>
       LET E == GraphEdges(lock)
           N == GraphNodes(lock)
           tops == {n \in N : Above(E \ SelfEdges(E), n) = {}}
       IN \A T \in tops \cap crates, U \in tops \ crates :
             (Acyclic(E) /\ tops = {T, U} /\ (Below(E, T) \cup {T}) \cap (Below(E, U) \cup {U}) = {})
             => \A x \in Below(E, U) \ {U} :
                   /\ ChainEnds(x)
                   /\ (Chain(x)[1] = T \/ Chain(x)[Len(Chain(x))] = T)

\* C7: in an acyclic graph the chain of every owner runs from a canonical
\* root to it along "depends on" edges, has the fewest edges of all such
\* paths, and among those the least cumulative name length.
C7_ChainIsShortest ==
    pc = "built" /\ crates # {} /\ Acyclic(GraphEdges(lock)) =>
       LET E == GraphEdges(lock)
           canon == CanonicalRoots(E, crates, GraphNodes(lock))
       IN \A t \in crates \cap GraphNodes(lock) :
             LET chain == Reverse(Chain(t))
             IN /\ ChainEnds(t)
                /\ chain[1] \in canon
                /\ chain[Len(chain)] = t
                /\ \A i \in 1..(Len(chain) - 1) : <<chain[i], chain[i + 1]>> \in E
                /\ \A r \in canon :
                      \A P \in {Q \in PathsFrom(E, r, {r}) : Q[Len(Q)] = t} :
                         /\ Len(chain) <= Len(P)
                         /\ Len(chain) = Len(P) => NameLen(chain) <= NameLen(P)

\* no name occurs twice on the path
NoRepeat(path) == \A i, j \in 1..Len(path) : path[i] = path[j] => i = j

C19_ChainNeverRepeats ==
    (pc = "built" /\ gp.at # "idle") =>
       /\ NoRepeat(gp.path)
       /\ Len(gp.path) <= Cardinality(DOMAIN packages.parent \cup {gp.id})

(***************************************************************************)
(* tool.rs: get_path_from_record.  tree.rs: Tree::new                      *)
(***************************************************************************)

\* Packages::get_path(id): its loop run to the end, MaxChain passes at most
get_path(pk, id) == get_path_run(pk.parent, get_path_start(id), MaxChain)

\* the path of a record: SECTIONS/section/parts when no owner is found, else
\* what get_path returns, the section, the parts after the owner
get_path_from_record(symbols, sections, pk) ==
    LET c == get_crate_name(symbols)
    IN IF ~c.some
       THEN <<SECTIONS_NAME, sections>> \o SplitColons(symbols, <<>>)
       ELSE get_path(pk, c.val.crate_name).path \o <<sections>> \o Tail(c.val.parts)

\* a row of the csv text: one that deserializes to a record, one that does not
GoodRow(rec) == [ok |-> TRUE, rec |-> rec]
BadRow == [ok |-> FALSE]

\* the rows that deserialize, the others dropped
deserialize_skip_bad(rows) ==
    LET good == SelectSeq(rows, LAMBDA r : r.ok)
    IN [ok |-> TRUE, val |-> [i \in 1..Len(good) |-> good[i].rec]]

\* `rdr.deserialize().collect::<Result<Vec<_>, csv::Error>>().map_err(CsvParse)`
deserialize(rows) ==
    IF \E i \in 1..Len(rows) : ~rows[i].ok
    THEN [ok |-> FALSE, err |-> "CsvParse"]
    ELSE [ok |-> TRUE, val |-> [i \in 1..Len(rows) |-> rows[i].rec]]

\* `Lockfile::load(..).map_err(..).and_then(|lock| lock.dependency_tree()..)`
load_lock(lock_file, lk) ==
    IF lock_file = "ok" THEN [ok |-> TRUE, val |-> lk]
    ELSE [ok |-> FALSE, err |-> "LockfileLoad"]

\* `if record.symbols.is_empty() { UNKNOWN_NAME } else { record.symbols }`
SymOf(record) == IF record.symbols = <<>> THEN UNKNOWN_NAME ELSE record.symbols

\* `if no_sections && path[0] == SECTIONS_NAME { continue; }`
skips(no_sections, path) == no_sections /\ path[1] = SECTIONS_NAME

(***************************************************************************)
(* Inputs of the pipeline specification                                    *)
(***************************************************************************)

MaxRows == 3

SymGH == <<":", ":", "g", ":", ":", "h">>

\* the rows a csv text is made of
RowPool ==
    {GoodRow([sections |-> SecText, symbols |-> PkgA \o SymF, vmsize |-> 10, filesize |-> 20]),
     GoodRow([sections |-> SecText, symbols |-> PkgR \o SymGH, vmsize |-> 7, filesize |-> 3]),
     GoodRow([sections |-> SecText, symbols |-> FixedSymbols[2], vmsize |-> 5, filesize |-> 5]),
     GoodRow([sections |-> SecText, symbols |-> <<>>, vmsize |-> 1, filesize |-> 2]),
     GoodRow([sections |-> SecText, symbols |-> SECTIONS_NAME \o SymF, vmsize |-> 2, filesize |-> 1]),
     BadRow}

CsvPool == UNION {[1..n -> RowPool] : n \in 0..MaxRows}

\* the graphs of the lock documents that load
NewEdgePool ==
    {{},
     {<<PkgR, PkgA>>},
     {<<PkgR, PkgA>>, <<PkgA, PkgA>>},
     {<<PkgR, PkgA>>, <<PkgCD, PkgA>>}}

\* what becomes of the lock file: it loads, it cannot be read or parsed, or
\* its dependency tree cannot be built
LockFiles == {"ok", "unreadable", "no_tree"}

(***************************************************************************)
(* The pipeline specification: Tree::new, then to_metafile by its caller   *)
(***************************************************************************)

InitNew ==
    /\ pc = "start"
    /\ args \in [csv : CsvPool, lock_file : LockFiles, no_sections : BOOLEAN]
    /\ IF args.lock_file = "ok" THEN \E E \in NewEdgePool : lock = LockOf(E)
       ELSE lock = <<>>
    /\ idx = 0
    /\ result = None
    /\ records = <<>>
    /\ crates = {}
    /\ parents = <<>>
    /\ dependencies = <<>>
    /\ roots = {}
    /\ packages = DefaultPackages
    /\ gp = [at |-> "idle"]
    /\ tree = EmptyTree
    /\ log = <<>>
    /\ meta = None

\* the csv text is parsed: all its records, or the error returned at once
ParseCsv ==
    /\ pc = "start"
    /\ LET r == deserialize(args.csv)
       IN IF r.ok
          THEN /\ records' = r.val
               /\ pc' = "parsed"
               /\ UNCHANGED result
          ELSE /\ result' = Some([ok |-> FALSE, err |-> r.err])
               /\ pc' = "failed"
               /\ UNCHANGED records
    /\ UNCHANGED <<lock, crates, parents, dependencies, roots, packages, gp>>
    /\ UNCHANGED <<args, idx>>
    /\ UNCHANGED treeVars

\* the lock file is loaded: Packages::new runs on it, or `.unwrap_or_default()`
LoadLock ==
    /\ pc = "parsed"
    /\ LET r == load_lock(args.lock_file, lock)
       IN IF r.ok
          THEN /\ pc' = "new"
               /\ UNCHANGED packages
          ELSE /\ pc' = "built"
               /\ packages' = DefaultPackages
    /\ UNCHANGED <<lock, records, crates, parents, dependencies, roots, gp>>
    /\ UNCHANGED newVars
    /\ UNCHANGED treeVars

\* one pass of `for record in records`; a get_path that does not return
\* leaves the loop where it is
InsertRecord ==
    /\ pc = "built"
    /\ result = None
    /\ idx < Len(records)
    /\ LET record == records[idx + 1]
           sym == SymOf(record)
           c == get_crate_name(sym)
       IN /\ c.some => get_path(packages, c.val.crate_name).at = "done"
          /\ LET path == get_path_from_record(sym, record.sections, packages)
             IN IF skips(args.no_sections, path)
                THEN UNCHANGED <<tree, log>>
                ELSE /\ tree' = add_path(tree, path, record.vmsize, record.filesize)
                     /\ log' = Append(log, [path |-> path, vmsize |-> record.vmsize,
                                            filesize |-> record.filesize])
    /\ idx' = idx + 1
    /\ UNCHANGED <<pc, meta, args, result>>
    /\ UNCHANGED pkgVars

\* `Ok(tree)`: the caller has the tree and may call to_metafile
ReturnOk ==
    /\ pc = "built"
    /\ result = None
    /\ args # <<>>
    /\ idx = Len(records)
    /\ result' = Some([ok |-> TRUE])
    /\ pc' = "build"
    /\ UNCHANGED <<args, idx>>
    /\ UNCHANGED pkgVars
    /\ UNCHANGED treeVars

NextNew ==
    \/ ParseCsv
    \/ LoadLock
    \/ PackagesNewFold
    \/ RootStep
    \/ PackagesNewFinish
    \/ InsertRecord
    \/ ReturnOk
    \/ ToMetafile

SpecNew == InitNew /\ [][NextNew]_vars

(***************************************************************************)
(* Inputs of the classifier specification                                  *)
(***************************************************************************)

MaxSegs == 3
MaxNest == 3

\* segments joined by "::"
RECURSIVE JoinColons(_)
JoinColons(segs) ==
    IF Len(segs) = 1 THEN segs[1]
    ELSE segs[1] \o <<":", ":">> \o JoinColons(Tail(segs))

\* "[1848 Others]" and a shorter marker of the same shape
Others1848 == <<"[", "1", "8", "4", "8", " ", "O", "t", "h", "e", "r", "s", "]">>
Others1 == FixedSymbols[2]

\* the segments plain symbols are made of: names, a dotted name, a name
\* holding "..", a name holding a space, a bracketed marker
SegPool ==
    {<<"a">>, <<"b", "b">>, <<"a", ".", "b">>, <<"a", ".", ".", "b">>,
     <<"a", " ", "b">>, Others1}

\* the symbols of one to MaxSegs segments
PlainSymbols ==
    {JoinColons(segs) : segs \in UNION {[1..n -> SegPool] : n \in 1..MaxSegs}}

\* the concrete types qualified symbols start from, each with the segments
\* of its normalized form
TypePool ==
    {[type |-> <<"u", "8">>,
      segs |-> <<<<"s", "t", "d">>, <<"p", "r", "i", "m", "i", "t", "i", "v", "e">>, <<"u", "8">>>>],
     [type |-> <<"a", ":", ":", "B">>, segs |-> <<<<"a">>, <<"B">>>>],
     [type |-> <<"(", ")">>,
      segs |-> <<<<"s", "t", "d">>, <<"p", "r", "i", "m", "i", "t", "i", "v", "e">>, <<"u", "n", "i", "t">>>>]}

\* the trait every level is qualified with, and the method of each level
TraitCD == <<"c", ":", ":", "D">>
MethodAt(n) == <<<<"m">>, <<"x">>, <<"y">>, <<"z">>, <<"w">>>>[n]

\* the type qualified n times: <..<T as c::D>::m_n as c::D>::m_(n-1) .. >::m_1
RECURSIVE Nested(_, _, _)
Nested(type, n, level) ==
    IF n = 0 THEN type
    ELSE <<"<">> \o Nested(type, n - 1, level + 1) \o <<" ", "a", "s", " ">>
            \o TraitCD \o <<">", ":", ":">> \o MethodAt(level)

\* "<u8 as <[_]>::to_vec_in::ConvertVec>::to_vec::<>"
ToVecSymbol ==
    <<"<", "u", "8", " ", "a", "s", " ", "<", "[", "_", "]", ">", ":", ":",
      "t", "o", "_", "v", "e", "c", "_", "i", "n", ":", ":",
      "C", "o", "n", "v", "e", "r", "t", "V", "e", "c", ">", ":", ":",
      "t", "o", "_", "v", "e", "c", ":", ":", "<", ">">>

\* the qualified symbols, each with the path the classifier is to give
QualifiedSymbols ==
    {[symbols |-> Nested(t.type, n, 1), parts |-> t.segs \o <<MethodAt(1)>>]
        : t \in TypePool, n \in 1..MaxNest}
    \cup {[symbols |-> ToVecSymbol,
           parts |-> <<<<"s", "t", "d">>, <<"p", "r", "i", "m", "i", "t", "i", "v", "e">>,
                       <<"u", "8">>, <<"t", "o", "_", "v", "e", "c">>>>]}

SymbolPool ==
    PlainSymbols \cup {q.symbols : q \in QualifiedSymbols} \cup {Others1848}

(***************************************************************************)
(* The classifier specification: get_crate_name and symbol_is_crate on a   *)
(* symbol                                                                  *)
(***************************************************************************)

InitClassify ==
    /\ pc = "symbol"
    /\ \E sym \in SymbolPool : args = [symbols |-> sym]
    /\ idx = 0
    /\ result = None
    /\ tree = EmptyTree
    /\ log = <<>>
    /\ meta = None
    /\ PkgIdle

\* get_crate_name(symbols)
GetCrateName ==
    /\ pc = "symbol"
    /\ result' = Some(get_crate_name(args.symbols))
    /\ pc' = "classified"
    /\ UNCHANGED <<args, idx>>
    /\ UNCHANGED treeVars
    /\ UNCHANGED pkgVars

\* symbol_is_crate(s)
SymbolIsCrate ==
    /\ pc = "symbol"
    /\ result' = Some(symbol_is_crate(args.symbols))
    /\ pc' = "checked"
    /\ UNCHANGED <<args, idx>>
    /\ UNCHANGED treeVars
    /\ UNCHANGED pkgVars

NextClassify == GetCrateName \/ SymbolIsCrate

SpecClassify == InitClassify /\ [][NextClassify]_vars

(***************************************************************************)
(* Properties of the classifier                                            *)
(***************************************************************************)

\* the symbol has one path segment: no "::" in it
SingleSegment(sym) == ~Contains(sym, <<":", ":">>)

\* C14: get_crate_name returns unclassified for "[1848 Others]", for every
\* symbol that holds ".." anywhere, in whichever segment, and for a symbol
\* of a single path segment.
C14_RejectedSymbolsUnclassified ==
    (pc = "classified"
        /\ (\/ args.symbols = Others1848
            \/ Contains(args.symbols, <<".", ".">>)
            \/ SingleSegment(args.symbols)))
    => result = Some(None)

\* C15: for a qualified symbol nested to any depth the classifier gives the
\* segments of the normalized innermost type followed by the outermost
\* method, and no segment of an intermediate trait or method;
\* "<u8 as <[_]>::to_vec_in::ConvertVec>::to_vec::<>" gives
\* std, primitive, u8, to_vec.
C15_NestedQualifiedKeepsInnerTypeOuterMethod ==
    pc = "classified" =>
       \A q \in QualifiedSymbols :
          args.symbols = q.symbols =>
             result = Some(Some([crate_name |-> q.parts[1], parts |-> q.parts]))

\* C15, its case: a symbol qualified MaxNest times over a::B is classified
\* with owner a.
C15_Witness ==
    /\ pc = "classified"
    /\ args.symbols = Nested(<<"a", ":", ":", "B">>, MaxNest, 1)
    /\ result.val.some
    /\ result.val.val.crate_name = <<"a">>

\* the string has the shape "[<n> Others]"
OthersShape(s) ==
    LET tail == <<" ", "O", "t", "h", "e", "r", "s", "]">>
        digits == {"0", "1", "2", "3", "4", "5", "6", "7", "8", "9"}
    IN /\ StartsWith(s, <<"[">>)
       /\ EndsWith(s, tail)
       /\ Len(s) > Len(tail) + 1
       /\ \A i \in 2..(Len(s) - Len(tail)) : s[i] \in digits

\* the three rejection rules of the owner-validity check
Rejected(s) ==
    Contains(s, <<".", ".">>) \/ Contains(s, <<" ">>) \/ OthersShape(s)

\* a well-formed path string: not empty, and no bracket of any kind in it
WellFormedPath(s) ==
    /\ s # <<>>
    /\ \A i \in 1..Len(s) : s[i] \notin {"[", "]", "<", ">", "(", ")", "{", "}"}

\* C16: symbol_is_crate rejects every string that holds "..", holds a space
\* or has the shape "[<n> Others]", and accepts every other well-formed path
\* string; an owner the classifier returns is the first element of the
\* returned path, the path has two segments or more, and the owner passes
\* the check.
C16_OwnerValidity ==
    /\ pc = "checked" =>
          /\ Rejected(args.symbols) => result = Some(FALSE)
          /\ (~Rejected(args.symbols) /\ WellFormedPath(args.symbols))
                => result = Some(TRUE)
    /\ (pc = "classified" /\ result.val.some) =>
          LET r == result.val.val
          IN /\ r.crate_name = r.parts[1]
             /\ Len(r.parts) >= 2
             /\ ~Rejected(r.crate_name)

\* C16, its case: the check has rejected a name that holds a space and
\* nothing else the rules reject.
C16_Witness ==
    /\ pc = "checked"
    /\ args.symbols = <<"a", " ", "b">>
    /\ result = Some(FALSE)

(***************************************************************************)
(* Properties of the tree                                                  *)
(***************************************************************************)

\* the sum of field f over a set of nodes of t
RECURSIVE SumField(_, _, _)
SumField(t, nodes, f) ==
    IF nodes = {} THEN 0
    ELSE LET q == CHOOSE x \in nodes : TRUE
         IN t[q][f] + SumField(t, nodes \ {q}, f)

\* the sum of field f over the logged add_path calls numbered idxs
RECURSIVE LogSum(_, _, _)
LogSum(l, idxs, f) ==
    IF idxs = {} THEN 0
    ELSE LET i == CHOOSE x \in idxs : TRUE
         IN l[i][f] + LogSum(l, idxs \ {i}, f)

\* the non-empty prefixes of a path
Prefixes(path) == {SubSeq(path, 1, n) : n \in 1..Len(path)}

\* the logged calls made at exactly path p
CallsAt(l, p) == {i \in 1..Len(l) : l[i].path = p}

\* C1: after any sequence of add_path calls every node, root and terminal
\* nodes included, has total = own + sum of the totals of its children, for
\* vmsize and for filesize (invariant I1).
C1_TotalIsOwnPlusChildren ==
    \A p \in DOMAIN tree :
       /\ tree[p].total_vmsize
             = tree[p].vmsize + SumField(tree, Children(tree, p), "total_vmsize")
       /\ tree[p].total_filesize
             = tree[p].filesize + SumField(tree, Children(tree, p), "total_filesize")

\* C2: for every k > 0 the bytes emitted with max_depth = k sum to the bytes
\* emitted with max_depth = 0, whatever the tree and the walk order.
C2_DepthCollapseConservesBytes ==
    \A k \in 1..MaxDeep :
       \A m0 \in EmitSet(tree, 0), mk \in EmitSet(tree, k) :
          SumBytes(mk) = SumBytes(m0)

\* C4: re-inserting a path accumulates: the node a path designates is one
\* node whose own sizes are the sums of the sizes of all the inserts made at
\* exactly that path, the nodes are exactly the prefixes of inserted paths,
\* and no parent has two children of one name.
C4_ReinsertAccumulates ==
    /\ DOMAIN tree
          = {<<>>} \cup UNION {Prefixes(log[i].path) : i \in 1..Len(log)}
    /\ \A p \in DOMAIN tree \ {<<>>} :
          /\ tree[p].name = p[Len(p)]
          /\ tree[p].vmsize = LogSum(log, CallsAt(log, p), "vmsize")
          /\ tree[p].filesize = LogSum(log, CallsAt(log, p), "filesize")
    /\ \A p \in DOMAIN tree :
          \A c1, c2 \in Children(tree, p) :
             tree[c1].name = tree[c2].name => c1 = c2

\* C4, its case: sizes (10, 20) then (5, 5) at one path, another insert in
\* between, leave own_vmsize 15 and own_filesize 25 there.
C4_Witness ==
    /\ Len(log) = 3
    /\ log[1].path = log[3].path
    /\ log[2].path # log[1].path
    /\ log[1].vmsize = 10 /\ log[1].filesize = 20
    /\ log[3].vmsize = 5 /\ log[3].filesize = 5
    /\ tree[log[1].path].vmsize = 15
    /\ tree[log[1].path].filesize = 25

(***************************************************************************)
(* Properties of the emitted map                                           *)
(***************************************************************************)

\* the names from the top-level ancestor of node p down to p, joined by '/'
RECURSIVE KeyOf(_)
KeyOf(p) ==
    IF Len(p) = 1 THEN p[1]
    ELSE KeyOf(SubSeq(p, 1, Len(p) - 1)) \o <<"/">> \o p[Len(p)]

\* the number of separators of the emitted path of node p
Seps(p) == CountChar(KeyOf(p), "/")

\* the nodes strictly below p
Under(t, p) == {q \in DOMAIN t : Len(q) > Len(p) /\ SubSeq(q, 1, Len(p)) = p}

\* the walk with max_depth = k comes to node p: it stopped at no node above
\* it (it stops at a node whose emitted path holds k separators or more)
Walked(p, k) ==
    k = 0 \/ \A n \in 1..(Len(p) - 1) : Seps(SubSeq(p, 1, n)) < k

\* C11: emitted with max_depth = k > 0, a node whose emitted path holds k
\* separators has an entry with bytes = its total_filesize and no imports,
\* and no node below it has an entry.
C11_CollapsedNodeCarriesTotal ==
    (meta.some /\ meta.val.deep > 0) =>
       LET k == meta.val.deep
           inputs == meta.val.file.inputs
       IN \A p \in DOMAIN tree \ {<<>>} :
             (Walked(p, k) /\ Seps(p) = k) =>
                /\ KeyOf(p) \in DOMAIN inputs
                /\ inputs[KeyOf(p)].bytes = tree[p].total_filesize
                /\ inputs[KeyOf(p)].imports = {}
                /\ \A q \in Under(tree, p) : KeyOf(q) \notin DOMAIN inputs

\* C12: emitted with max_depth = 0, the map has exactly one entry per
\* non-root node, keyed by the '/'-joined names from its top-level ancestor
\* down to it, with bytes = the node's own filesize and imports = the full
\* paths of its direct children; the root has no entry and every import path
\* is a key of the map.
C12_UnboundedEmissionOneEntryPerNode ==
    (meta.some /\ meta.val.deep = 0) =>
       LET inputs == meta.val.file.inputs
           nodes == DOMAIN tree \ {<<>>}
       IN /\ DOMAIN inputs = {KeyOf(p) : p \in nodes}
          /\ Cardinality(DOMAIN inputs) = Cardinality(nodes)
          /\ \A p \in nodes :
                /\ inputs[KeyOf(p)].bytes = tree[p].filesize
                /\ inputs[KeyOf(p)].imports = {KeyOf(c) : c \in Children(tree, p)}
          /\ \A key \in DOMAIN inputs : inputs[key].imports \subseteq DOMAIN inputs

\* the report but for its entry point: one output entry keyed by the
\* caller's name, bytes = the root's total_filesize, an inputs table with the
\* keys of the emitted map and bytesInOutput = each entry's bytes
ReportTable ==
    meta.some =>
       LET file == meta.val.file
       IN /\ DOMAIN file.outputs = {BINARY}
          /\ file.outputs[BINARY].bytes = tree[<<>>].total_filesize
          /\ DOMAIN file.outputs[BINARY].inputs = DOMAIN file.inputs
          /\ \A key \in DOMAIN file.inputs :
                file.outputs[BINARY].inputs[key].bytes_in_output = file.inputs[key].bytes

\* C13: the report of to_metafile has exactly one output entry, keyed by the
\* caller's name, with bytes = the root's total_filesize, an inputs table with
\* the keys of the emitted map and bytesInOutput = each entry's bytes, and
\* the root's name as entry point.
C13_ReportShape ==
    /\ ReportTable
    /\ meta.some => meta.val.file.outputs[BINARY].entry_point = Some(tree[<<>>].name)

\* C20: emitted with max_depth = k > 0, every key of the map holds at most k
\* separators, and a node is collapsed exactly when it has k ancestors below
\* the root: every node with k such ancestors or fewer has an entry, and a
\* node with fewer than k has its children as imports.
C20_EmittedKeysDepthBounded ==
    (meta.some /\ meta.val.deep > 0) =>
       LET k == meta.val.deep
           inputs == meta.val.file.inputs
       IN /\ \A key \in DOMAIN inputs : CountChar(key, "/") <= k
          /\ \A p \in DOMAIN tree \ {<<>>} :
                /\ Len(p) - 1 <= k => KeyOf(p) \in DOMAIN inputs
                /\ Len(p) - 1 < k =>
                      \A c \in Children(tree, p) : KeyOf(c) \in DOMAIN inputs

\* the orders in which n add_path calls can be made
Perms(n) == {q \in [1..n -> 1..n] : \A i, j \in 1..n : q[i] = q[j] => i = j}

\* the logged calls l made in the order q
Permuted(l, q) == [i \in 1..Len(l) |-> l[q[i]]]

\* the tree after the calls of l made in turn on a new tree
RECURSIVE Replay(_)
Replay(l) ==
    IF l = <<>> THEN EmptyTree
    ELSE LET last == l[Len(l)]
         IN add_path(Replay(SubSeq(l, 1, Len(l) - 1)),
                     last.path, last.vmsize, last.filesize)

\* a call of add_path deletes no node and lowers no own or total size
NothingShrinks ==
    \A p \in DOMAIN tree :
       /\ p \in DOMAIN tree'
       /\ tree'[p].vmsize >= tree[p].vmsize
       /\ tree'[p].filesize >= tree[p].filesize
       /\ tree'[p].total_vmsize >= tree[p].total_vmsize
       /\ tree'[p].total_filesize >= tree[p].total_filesize

\* C22: the add_path calls made in any other order give the same tree, and
\* so the same emitted map for every max_depth; along the calls no node is
\* deleted and no own or total size of a node decreases.
C22_InsertionOrderIndependent ==
    /\ [](\A q \in Perms(Len(log)) :
             LET other == Replay(Permuted(log, q))
             IN /\ other = tree
                /\ \A deep \in 0..MaxDeep :
                      \A m1 \in EmitSet(tree, deep), m2 \in EmitSet(other, deep) :
                         m1 = m2)
    /\ [][NothingShrinks]_vars

(***************************************************************************)
(* Properties of the root detection loop (packages.rs, Packages::new)      *)
(***************************************************************************)
\* one pass of the loop has run between the two states
LoopPass == pc = "roots" /\ pc' = "roots" /\ <<parents, roots>>' # <<parents, roots>>

\* the loop is left between the two states
LoopExit == pc = "roots" /\ pc' = "built"

\* C21: the root detection loop terminates; each pass removes exactly one
\* key, a key whose parent set was empty, and adds no key (so a removed name
\* does not come back while the loop runs); when the loop is left every key
\* still in the map has a non-empty parent set.
C21_RootLoopTerminates ==
    /\ [][/\ LoopPass =>
                /\ DOMAIN parents' \subseteq DOMAIN parents
                /\ \E root \in DOMAIN parents :
                      /\ parents[root] = {}
                      /\ DOMAIN parents' = DOMAIN parents \ {root}
          /\ LoopExit => \A k \in DOMAIN parents : parents[k] # {}]_vars
    /\ (pc = "roots") ~> (pc = "built")

\* the loop is about to be left after it dropped a key and kept a target
\* root, with keys still in the map
C21_Witness ==
    /\ pc = "roots"
    /\ CandidateRoots(parents) = {}
    /\ DOMAIN parents # {}
    /\ roots # {}
    /\ \E i \in 1..Len(lock) : ReplaceDash(lock[i].name) \notin DOMAIN parents \cup roots

(***************************************************************************)
(* Properties of the pipeline                                              *)
(***************************************************************************)

\* the record has no owner: the classifier finds none for its symbol
Unclassified(record) == ~get_crate_name(SymOf(record)).some

\* record i is one the filter of Tree::new lets through: no_sections is unset
\* or the path of the record does not start with the SECTIONS marker
Counted(i) ==
    ~(args.no_sections
        /\ get_path_from_record(SymOf(records[i]), records[i].sections, packages)[1]
              = SECTIONS_NAME)

\* the records processed so far that the filter let through
CountedSoFar == {i \in 1..idx : Counted(i)}

\* Tree::new returned Ok
ReturnedOk == result.some /\ result.val.ok

\* C3: after every prefix of the records has been processed the root's
\* total_vmsize and total_filesize are the sums of vmsize and filesize over
\* the records inserted so far, those the exclude-unclassified filter did not
\* skip; every such record is one add_path call, whatever its path length.
C3_RootTotalIsSumOfInserted ==
    /\ tree[<<>>].total_vmsize = LogSum(records, CountedSoFar, "vmsize")
    /\ tree[<<>>].total_filesize = LogSum(records, CountedSoFar, "filesize")
    /\ Len(log) = Cardinality(CountedSoFar)

\* C3, its case: all of three records are processed, one was skipped by the
\* filter, one was inserted at a path of four segments, one at a shorter path.
C3_Witness ==
    /\ idx = 3
    /\ idx = Len(records)
    /\ \E i \in 1..idx : ~Counted(i)
    /\ \E k \in 1..Len(log) : Len(log[k].path) >= 4
    /\ \E k \in 1..Len(log) : Len(log[k].path) < 4
    /\ tree[<<>>].total_vmsize > 0

\* the path a record gets when every owner's chain is the owner alone
TrivialPath(record) ==
    LET c == get_crate_name(SymOf(record))
    IN IF c.some
       THEN <<c.val.crate_name, record.sections>> \o Tail(c.val.parts)
       ELSE <<SECTIONS_NAME, record.sections>> \o SplitColons(SymOf(record), <<>>)

\* the add_path call record i is inserted with under trivial chains
TrivialCall(i) ==
    [path |-> TrivialPath(records[i]), vmsize |-> records[i].vmsize,
     filesize |-> records[i].filesize]

\* the lock file failed to load and Tree::new got past the csv text
LockFailed == args # <<>> /\ args.lock_file # "ok" /\ pc \in {"built", "build", "emitted"}

\* with a lock file that failed, Tree::new does not fail for it: no
\* LockfileLoad error, every classified owner's chain is [owner]
LockFailureTolerated ==
    /\ (args # <<>> /\ args.lock_file # "ok" /\ result.some)
          => (result.val.ok \/ result.val.err # "LockfileLoad")
    /\ LockFailed =>
          \A i \in 1..Len(records) :
             LET c == get_crate_name(SymOf(records[i]))
             IN c.some => get_path(packages, c.val.crate_name)
                             = [get_path_start(c.val.crate_name) EXCEPT !.at = "done"]

\* C9 as stated: if the lock document cannot be loaded or parsed, Tree::new
\* does not fail, every classified owner resolves to [owner], and every input
\* record is inserted.
C9_LockFailureInsertsEveryRecord ==
    /\ LockFailureTolerated
    /\ (LockFailed /\ ReturnedOk) =>
          log = [i \in 1..Len(records) |-> TrivialCall(i)]

\* the k-th smallest element of a set of naturals
RECURSIVE Nth(_, _)
Nth(S, k) ==
    LET m == CHOOSE x \in S : \A y \in S : x <= y
    IN IF k = 1 THEN m ELSE Nth(S \ {m}, k - 1)

\* C9: if the lock document cannot be loaded or parsed, Tree::new does not
\* fail, every classified owner resolves to [owner], and every input record
\* that the exclude-unclassified filter does not skip is inserted, in order,
\* at the path its trivial chain gives.
C9_LockFailureInsertsUnfilteredRecords ==
    /\ LockFailureTolerated
    /\ (LockFailed /\ ReturnedOk) =>
          /\ idx = Len(records)
          /\ log = [k \in 1..Cardinality(CountedSoFar) |-> TrivialCall(Nth(CountedSoFar, k))]

\* C9, its case: the lock file failed, Tree::new returned Ok on records of
\* which one has an owner and one was skipped by the filter.
C9_Witness ==
    /\ LockFailed
    /\ ReturnedOk
    /\ \E i \in 1..Len(records) : ~Unclassified(records[i])
    /\ \E i \in 1..Len(records) : ~Counted(i)
    /\ Len(log) >= 1

\* the csv text has a row that fails to parse
HasBadRow == args # <<>> /\ \E i \in 1..Len(args.csv) : ~args.csv[i].ok

\* C10: if any row of the csv text fails to parse, Tree::new returns the
\* CsvParse error and nothing else, no record of that text is inserted, the
\* good rows before the bad one included, and no report is produced.
C10_BadRowIsFatal ==
    HasBadRow =>
       /\ pc \in {"start", "failed"}
       /\ pc = "failed" <=> result = Some([ok |-> FALSE, err |-> "CsvParse"])
       /\ pc = "start" <=> result = None
       /\ records = <<>>
       /\ log = <<>>
       /\ tree = EmptyTree
       /\ meta = None

\* C10, its case: Tree::new has returned on a text whose first row is
\* well-formed and whose second is not.
C10_Witness ==
    /\ HasBadRow
    /\ Len(args.csv) >= 2
    /\ args.csv[1].ok
    /\ ~args.csv[2].ok
    /\ pc = "failed"
    /\ result.some

\* the record the loop of Tree::new processed last was inserted
LastInserted == pc = "built" /\ idx >= 1 /\ Counted(idx) /\ Len(log) >= 1

\* C17: the path of a classified record is the owner's chain from its root
\* down to the owner, then the section, then the classifier's segments
\* without the owner; the path of an unclassified record is the SECTIONS
\* marker, the section, the raw "::" pieces of the symbol; it is never empty.
C17_RecordPathShape ==
    LastInserted =>
       LET record == records[idx]
           path == log[Len(log)].path
           c == get_crate_name(SymOf(record))
       IN /\ path # <<>>
          /\ IF c.some
             THEN path = Reverse(Chain(c.val.crate_name))
                            \o <<record.sections>> \o Tail(c.val.parts)
             ELSE path = <<SECTIONS_NAME, record.sections>>
                            \o SplitColons(SymOf(record), <<>>)

\* C18: with no_sections set a record is skipped if and only if the
\* classifier returns unclassified for its symbol, so every classified record
\* is inserted, one whose owner is named like the SECTIONS marker included,
\* and no unclassified record has an entry in the report; with no_sections
\* unset no record is skipped.
C18_SkippedIffUnclassified ==
    (args # <<>> /\ pc \in {"built", "build", "emitted"}) =>
       LET kept == {i \in 1..idx : ~(args.no_sections /\ Unclassified(records[i]))}
       IN /\ Len(log) = Cardinality(kept)
          /\ \A k \in 1..Len(log) :
                /\ log[k].vmsize = records[Nth(kept, k)].vmsize
                /\ log[k].filesize = records[Nth(kept, k)].filesize
          /\ (meta.some /\ args.no_sections /\ meta.val.deep = 0) =>
                \A i \in 1..Len(records) :
                   Unclassified(records[i])
                      => KeyOf(TrivialPath(records[i])) \notin DOMAIN meta.val.file.inputs

====
